---- MODULE Spec2Model ----
(***************************************************************************)
(* Batch upload and result aggregation of the PDF OCR front end.           *)
(* App.jsx holds the state (mode, selectedFiles, isProcessing, progress,   *)
(* results, error); services/api.js posts the batch; UploadForm,           *)
(* BatchResults and NotesResults are the views whose rendered controls     *)
(* decide which handler a user event can reach.                            *)
(***************************************************************************)
EXTENDS Integers, Sequences, FiniteSets, TLC

\* ------------------------------------------------------------------ bounds
MaxFiles == 2     \* longest staged sequence explored
MaxCand == 2      \* longest candidate list of one drop / file-dialog selection
MaxPending == 2   \* cap on posted requests that have not completed
MaxSeconds == 2   \* longest elapsed time counted by the processing view

\* --------------------------------------------------------------- JS values
\* null / a value, as records so that both compare with each other
None == [some |-> FALSE]
Some(v) == [some |-> TRUE, val |-> v]

\* a || b on strings: the empty (or absent) string is falsy
OrElse(a, b) == IF a = "" THEN b ELSE a

\* a string value is truthy unless it is absent or empty
Truthy(v) == v.some /\ v.val # <<>>

\* v || "" on an optional string
OrEmptyString(v) == IF Truthy(v) THEN v ELSE Some(<<>>)

\* Math.round(a / b) for a >= 0, b > 0: floor(a/b + 0.5)
MathRound(a, b) == (2 * a + b) \div (2 * b)

\* ------------------------------------------------------------------- files
\* File names are sequences of characters.
NameA == <<"a", ".", "p", "d", "f">>
NameB == <<"b", ".", "v", "2", ".", "P", "N", "G">>
NameC == <<"c", ".", "t", "x", "t">>
NameD == <<"d">>

\* A File object: id is the object's identity (two files of different
\* folders may agree on name, size and type).
File(i, n, s, t) == [id |-> i, name |-> n, size |-> s, type |-> t]

FileUniverse ==
    { File(1, NameA, 1, "application/pdf"),
      File(2, NameA, 2, "application/pdf"),
      File(3, NameA, 1, "application/pdf"),
      File(4, NameB, 1, ""),
      File(5, NameC, 2, "text/plain"),
      File(6, NameD, 2, "image/png") }

\* sequences over S of length lo..hi
SeqsOf(S, lo, hi) == UNION { [1..n -> S] : n \in lo..hi }

\* the files of one drop or one file-dialog selection: distinct File objects
CandidateLists ==
    { c \in SeqsOf(FileUniverse, 1, MaxCand) :
        \A i, j \in 1..Len(c) : i # j => c[i] # c[j] }

\* `${f.name}__${f.size}`: the name, two underscores, the decimal size.
\* The decimal size holds no underscore, so the string determines the pair.
FileKey(f) == <<f.name, f.size>>

\* ------------------------------------------------------- UploadForm filter
allowedTypes ==
    { "application/pdf", "image/jpeg", "image/png", "image/gif",
      "image/webp", "image/bmp", "image/tiff" }

\* the alternatives of /\.(pdf|jpe?g|png|gif|webp|bmp|tiff?)$/i, lower case
allowedExtensions ==
    { <<"p", "d", "f">>, <<"j", "p", "g">>, <<"j", "p", "e", "g">>,
      <<"p", "n", "g">>, <<"g", "i", "f">>, <<"w", "e", "b", "p">>,
      <<"b", "m", "p">>, <<"t", "i", "f", "f">>, <<"t", "i", "f">> }

\* the i flag of the pattern
LowerChar(c) ==
    CASE c = "P" -> "p" [] c = "N" -> "n" [] c = "G" -> "g"
      [] c = "D" -> "d" [] c = "F" -> "f" [] OTHER -> c

LowerName(n) == [i \in 1..Len(n) |-> LowerChar(n[i])]

\* the pattern matches when the name ends with a dot and an alternative
ExtensionMatches(n) ==
    \E k \in 1..Len(n) :
        /\ n[k] = "."
        /\ k < Len(n)
        /\ SubSeq(LowerName(n), k + 1, Len(n)) \in allowedExtensions

\* variant: any file the browser could type is accepted
isAllowedFileAnyType(f) == f.type # "" \/ ExtensionMatches(f.name)

isAllowedFile(f) == f.type \in allowedTypes \/ ExtensionMatches(f.name)

\* ------------------------------------------------------------------- state
VARIABLES
    mode,            \* "ocr" | "notes"
    selectedFiles,   \* sequence of File
    isProcessing,    \* the in-flight guard
    progress,        \* percentage shown by ProcessingStatus
    results,         \* None (null) or Some(sequence of records)
    error,           \* None (null) or Some(message)
    pending,         \* posted requests whose promise has not settled
    expandedIndex,   \* result view: None (null) or Some(row index)
    viewModes,       \* result view: row index -> chosen view mode
    effects,         \* what the last step wrote to the clipboard or saved
    timers,          \* the intervals set and not cleared
    dots,            \* ProcessingStatus: the animated ellipsis
    elapsedSeconds,  \* ProcessingStatus: the elapsed-time counter
    last             \* the handler that ran last, with its argument

vars == <<mode, selectedFiles, isProcessing, progress, results, error,
          pending, expandedIndex, viewModes, effects, timers, dots,
          elapsedSeconds, last>>

Modes == {"ocr", "notes"}

\* useState({}) of the result views
NoViewModes == [i \in {} |-> ""]

Last(op, m, c, i) == [op |-> op, mode |-> m, cand |-> c, index |-> i]

Init ==
    /\ mode = "ocr"
    /\ selectedFiles = <<>>
    /\ isProcessing = FALSE
    /\ progress = 0
    /\ results = None
    /\ error = None
    /\ pending = <<>>
    /\ expandedIndex = None
    /\ viewModes = NoViewModes
    /\ effects = <<>>
    /\ timers = {}
    /\ dots = <<>>
    /\ elapsedSeconds = 0
    /\ last = Last("init", "ocr", <<>>, 0)

\* -------------------------------------------------------- render conditions
\* variant: the mode switcher is rendered without a condition
ModeSwitcherAlwaysShown == TRUE

ModeSwitcherShown == ~isProcessing /\ ~results.some
\* variant: the upload form is rendered without a condition
UploadFormAlwaysShown == TRUE

UploadFormShown == ~isProcessing /\ ~results.some
ProcessingStatusShown == isProcessing
\* variant: the OCR result view is rendered whatever the mode
BatchResultsShownAnyMode == ~isProcessing /\ results.some

BatchResultsShown == ~isProcessing /\ results.some /\ mode = "ocr"
NotesResultsShown == ~isProcessing /\ results.some /\ mode = "notes"
ResultViewShown == BatchResultsShown \/ NotesResultsShown
\* variant: the form stays mounted and its button enabled during a batch
UploadButtonEnabledWhileProcessing == Len(selectedFiles) > 0

\* the primary action of UploadForm: rendered for a non-empty selection and
\* not disabled
UploadButtonEnabled ==
    UploadFormShown /\ Len(selectedFiles) > 0 /\ ~isProcessing
\* the expanded content of row index (counted from 0), with its copy and
\* download controls
ExpandedContentShown(index) ==
    /\ ResultViewShown
    /\ index + 1 \in 1..Len(results.val)
    /\ expandedIndex = Some(index)
    /\ results.val[index + 1].success

\* ------------------------------------------------------------ services/api
\* variant: the parts are prepended instead of appended
FormDataOfReversed(files) ==
    [i \in 1..Len(files) |->
        [field |-> "files", value |-> files[Len(files) + 1 - i]]]

\* formData.append("files", file) for each file, in order
FormDataOf(files) ==
    [i \in 1..Len(files) |-> [field |-> "files", value |-> files[i]]]

TimeoutBase == 300000
TimeoutPerFile == 600000

\* progressEvent.total, the bytes of the multipart body: every part carries
\* its file and a part header, and a closing boundary ends the body
RECURSIVE SumSizes(_)
SumSizes(fd) ==
    IF fd = <<>> THEN 0
    ELSE fd[1].value.size + 1 + SumSizes(Tail(fd))
BodyBytes(fd) == SumSizes(fd) + 1

\* variant: the timeout option is left out (axios then never times out)
uploadBatchNoTimeout(files) ==
    [ path |-> "/api/upload-batch",
      query |-> "",
      formData |-> FormDataOf(files),
      timeout |-> 0,
      fallback |-> "Batch upload failed",
      loaded |-> 0 ]

\* the api.post call of uploadBatch
uploadBatch(files) ==
    [ path |-> "/api/upload-batch",
      query |-> "",
      formData |-> FormDataOf(files),
      timeout |-> TimeoutBase + Len(files) * TimeoutPerFile,
      fallback |-> "Batch upload failed",
      loaded |-> 0 ]

\* variant: the timeout does not grow with the number of files
extractNotesBatchFlatTimeout(files, includeImage) ==
    [ path |-> "/api/extract-notes-batch",
      query |-> IF includeImage THEN "include_image=true"
                ELSE "include_image=false",
      formData |-> FormDataOf(files),
      timeout |-> TimeoutBase + TimeoutPerFile,
      fallback |-> "Notes extraction failed",
      loaded |-> 0 ]

\* variant: the include_image option is inverted
extractNotesBatchInverted(files, includeImage) ==
    [ path |-> "/api/extract-notes-batch",
      query |-> IF includeImage THEN "include_image=false"
                ELSE "include_image=true",
      formData |-> FormDataOf(files),
      timeout |-> TimeoutBase + Len(files) * TimeoutPerFile,
      fallback |-> "Notes extraction failed",
      loaded |-> 0 ]

\* the api.post call of extractNotesBatch
extractNotesBatch(files, includeImage) ==
    [ path |-> "/api/extract-notes-batch",
      query |-> IF includeImage THEN "include_image=true"
                ELSE "include_image=false",
      formData |-> FormDataOf(files),
      timeout |-> TimeoutBase + Len(files) * TimeoutPerFile,
      fallback |-> "Notes extraction failed",
      loaded |-> 0 ]

\* variant: the quotient is truncated instead of rounded
percentCompletedTruncated(loaded, total) == (loaded * 100) \div total

\* onUploadProgress: Math.round((loaded * 100) / total)
percentCompleted(loaded, total) == MathRound(loaded * 100, total)

\* what axios rejects with: response says whether error.response is set,
\* request whether error.request is; an error with a response carries its
\* request as well, and a failure before the request left has neither
AxiosErrors ==
    [ response : {TRUE}, request : {TRUE}, detail : {"", "detail"},
      error : {"", "error"}, message : {"Request failed"} ]
    \cup [ response : {FALSE}, request : {TRUE}, detail : {""}, error : {""},
           message : {"Network Error"} ]
    \cup [ response : {FALSE}, request : {FALSE}, detail : {""}, error : {""},
           message : {"", "setup failed"} ]

\* what axios rejects with when the timeout option of the request expires:
\* the request was sent and no response was received
TimeoutError ==
    [ response |-> FALSE, request |-> TRUE, detail |-> "", error |-> "",
      message |-> "timeout exceeded" ]

NoResponseMessage == "No response from server. Is the backend running?"

\* variant: error.request is tested before error.response
ApiErrorMessageRequestFirst(req, err) ==
    IF err.request
    THEN NoResponseMessage
    ELSE IF err.response
    THEN OrElse(err.detail, OrElse(err.error, req.fallback))
    ELSE OrElse(err.message, req.fallback)

\* the catch block of uploadBatch / extractNotesBatch: the message of the
\* Error it throws
ApiErrorMessage(req, err) ==
    IF err.response
    THEN OrElse(err.detail, OrElse(err.error, req.fallback))
    ELSE IF err.request
    THEN NoResponseMessage
    ELSE OrElse(err.message, req.fallback)

\* ----------------------------------------------------------------- backend
\* One record per received file, in the order of the multipart body.
\* fail: the file could not be processed; ok: it was, and text was found;
\* empty: it was, and no text was found
Outcomes == {"fail", "ok", "empty"}

\* the text recognised in a file: it depends on the file and nothing else
TextOf(part) == part.value.name \o [k \in 1..part.value.size |-> "x"]

\* the seconds spent on a file, in tenths: a file that is processed takes
\* time by its size, a file that fails takes a moment, and a file of unknown
\* type is turned down before any time is measured
TimeOf(part, outcome) ==
    IF outcome # "fail" THEN Some(12 * part.value.size)
    ELSE IF part.value.type # "" THEN Some(3)
    ELSE None

RecordOf(req, part, outcome) ==
    LET ocr == req.path = "/api/upload-batch"
        text == IF outcome = "ok" THEN Some(TextOf(part))
                ELSE IF outcome = "empty" THEN Some(<<>>)
                ELSE None
    IN  [ filename |-> part.value.name,
          file_size |-> part.value.size,
          success |-> outcome # "fail",
          processing_time |-> TimeOf(part, outcome),
          markdown_content |-> IF ocr THEN text ELSE None,
          notes_text |-> IF ocr THEN None ELSE text,
          crop_image_b64 |->
              IF ~ocr /\ outcome = "ok" /\ req.query = "include_image=true"
              THEN Some(<<"i", "V", "B", "O">> \o part.value.name)
              ELSE None ]

BackendResponse(req, outcomes) ==
    LET fd == req.formData
    IN  [ results |-> [i \in 1..Len(fd) |-> RecordOf(req, fd[i], outcomes[i])],
          total |-> Len(fd),
          succeeded |-> Cardinality({i \in 1..Len(fd) : outcomes[i] # "fail"}) ]

\* ---------------------------------------------------------------- App.jsx
\* variant: no filter against the staged keys
DedupAppendAll(prev, newFiles) == prev \o newFiles

\* the updater of handleFilesSelect
DedupAppend(prev, newFiles) ==
    LET existing == { FileKey(prev[i]) : i \in 1..Len(prev) }
        unique == SelectSeq(newFiles, LAMBDA f : FileKey(f) \notin existing)
    IN  prev \o unique

\* variant: the index is taken as counted from 1
RemoveAtOneBased(prev, index) ==
    LET keep == { i \in 1..Len(prev) : i # index }
        pos(k) == CHOOSE i \in keep :
                      Cardinality({j \in keep : j < i}) = k - 1
    IN  [k \in 1..Cardinality(keep) |-> prev[pos(k)]]

\* the updater of handleRemoveFile: prev.filter((_, i) => i !== index),
\* index counted from 0
RemoveAt(prev, index) ==
    LET keep == { i \in 1..Len(prev) : i - 1 # index }
        pos(k) == CHOOSE i \in keep :
                      Cardinality({j \in keep : j < i}) = k - 1
    IN  [k \in 1..Cardinality(keep) |-> prev[pos(k)]]

\* variant: a settled request stays with the transport
RemovePendingKeepsRequest(i) == pending

RemovePending(i) == [k \in 1..(Len(pending) - 1) |->
                        IF k < i THEN pending[k] ELSE pending[k + 1]]

\* variant: the result views are kept mounted, and hidden, instead of being
\* rendered under a condition
ResultViewStaysMounted == UNCHANGED <<expandedIndex, viewModes>>

\* the result views are rendered under a condition on results: they are
\* unmounted, and their state is dropped, when results are cleared, and they
\* are mounted with the initial state of their useState calls when results
\* are stored
ResultViewRemounts ==
    /\ expandedIndex' = None
    /\ viewModes' = NoViewModes

\* variant: the effect of the elapsed-time counter returns no cleanup
ClearIntervalsOfDotsOnly(running) == running \ {"dots"}

\* the cleanups of the two effects of ProcessingStatus: clearInterval(interval)
ClearIntervals(running) == running \ {"dots", "elapsed"}

\* ProcessingStatus is rendered under the condition isProcessing: a step that
\* sets the guard mounts it, with the initial state of its useState calls,
\* and runs its two effects, each of which sets an interval; a step that
\* clears the guard unmounts it and runs the cleanups of the effects
ProcessingStatusCommit ==
    IF ~isProcessing /\ isProcessing'
    THEN /\ timers' = timers \cup {"dots", "elapsed"}
         /\ dots' = <<>>
         /\ elapsedSeconds' = 0
    ELSE IF isProcessing /\ ~isProcessing'
    THEN /\ timers' = ClearIntervals(timers)
         /\ dots' = <<>>
         /\ elapsedSeconds' = 0
    ELSE UNCHANGED <<timers, dots, elapsedSeconds>>

\* variant: the staged files survive the switch
handleModeChangeKeepsFiles(newMode) ==
    /\ last' = Last("mode", newMode, <<>>, 0)
    /\ effects' = <<>>
    /\ IF newMode = mode
       THEN UNCHANGED <<mode, selectedFiles, isProcessing, progress,
                        results, error>>
       ELSE /\ mode' = newMode
            /\ isProcessing' = FALSE
            /\ progress' = 0
            /\ results' = None
            /\ error' = None
            /\ UNCHANGED selectedFiles
    /\ UNCHANGED <<pending, expandedIndex, viewModes>>
    /\ ProcessingStatusCommit

\* variant: no early return for the active mode
handleModeChangeAlwaysResets(newMode) ==
    /\ last' = Last("mode", newMode, <<>>, 0)
    /\ effects' = <<>>
    /\ mode' = newMode
    /\ selectedFiles' = <<>>
    /\ isProcessing' = FALSE
    /\ progress' = 0
    /\ results' = None
    /\ error' = None
    /\ UNCHANGED <<pending, expandedIndex, viewModes>>
    /\ ProcessingStatusCommit

handleModeChange(newMode) ==
    /\ last' = Last("mode", newMode, <<>>, 0)
    /\ effects' = <<>>
    /\ IF newMode = mode
       THEN UNCHANGED <<mode, selectedFiles, isProcessing, progress,
                        results, error>>
       ELSE /\ mode' = newMode
            /\ selectedFiles' = <<>>
            /\ isProcessing' = FALSE
            /\ progress' = 0
            /\ results' = None
            /\ error' = None
    /\ UNCHANGED <<pending, expandedIndex, viewModes>>
    /\ ProcessingStatusCommit

handleFilesSelect(newFiles) ==
    /\ selectedFiles' = DedupAppend(selectedFiles, newFiles)
    /\ error' = None

\* UploadForm.handleFilesChange: filter, report the skipped count, pass on
handleFilesChange(newFiles) ==
    LET validFiles == SelectSeq(newFiles, isAllowedFile)
    IN  /\ last' = Last("add", mode, newFiles, 0)
        /\ effects' = <<>>
        /\ IF Len(validFiles) > 0
           THEN handleFilesSelect(validFiles)
           ELSE UNCHANGED <<selectedFiles, error>>
        /\ UNCHANGED <<mode, isProcessing, progress, results, pending,
                       expandedIndex, viewModes>>
        /\ ProcessingStatusCommit

\* variant: the error of the last attempt survives a remove
handleRemoveFileKeepsError(index) ==
    /\ last' = Last("remove", mode, <<>>, index)
    /\ effects' = <<>>
    /\ selectedFiles' = RemoveAt(selectedFiles, index)
    /\ UNCHANGED <<mode, isProcessing, progress, results, pending,
                   expandedIndex, viewModes, error>>
    /\ ProcessingStatusCommit

handleRemoveFile(index) ==
    /\ last' = Last("remove", mode, <<>>, index)
    /\ effects' = <<>>
    /\ selectedFiles' = RemoveAt(selectedFiles, index)
    /\ error' = None
    /\ UNCHANGED <<mode, isProcessing, progress, results, pending,
                   expandedIndex, viewModes>>
    /\ ProcessingStatusCommit

\* variant: the error of the previous attempt is not cleared
handleUploadKeepsError ==
    /\ last' = Last("upload", mode, <<>>, 0)
    /\ effects' = <<>>
    /\ IF Len(selectedFiles) = 0
       THEN UNCHANGED <<isProcessing, progress, pending>>
       ELSE /\ isProcessing' = TRUE
            /\ progress' = 0
            /\ pending' = Append(pending,
                   IF mode = "ocr"
                   THEN uploadBatch(selectedFiles)
                   ELSE extractNotesBatch(selectedFiles, TRUE))
    /\ UNCHANGED <<mode, selectedFiles, results, expandedIndex, viewModes, error>>
    /\ ProcessingStatusCommit

\* handleUpload up to its await
handleUpload ==
    /\ last' = Last("upload", mode, <<>>, 0)
    /\ effects' = <<>>
    /\ IF Len(selectedFiles) = 0
       THEN UNCHANGED <<isProcessing, progress, error, pending>>
       ELSE /\ isProcessing' = TRUE
            /\ progress' = 0
            /\ error' = None
            /\ pending' = Append(pending,
                   IF mode = "ocr"
                   THEN uploadBatch(selectedFiles)
                   ELSE extractNotesBatch(selectedFiles, TRUE))
    /\ UNCHANGED <<mode, selectedFiles, results, expandedIndex, viewModes>>
    /\ ProcessingStatusCommit

\* the callback (p) => setProgress(p), called from onUploadProgress
onUploadProgress(i, loaded) ==
    /\ last' = Last("progress", mode, <<>>, i)
    /\ effects' = <<>>
    /\ progress' = percentCompleted(loaded, BodyBytes(pending[i].formData))
    /\ pending' = [pending EXCEPT ![i].loaded = loaded]
    /\ UNCHANGED <<mode, selectedFiles, isProcessing, results, error,
                   expandedIndex, viewModes>>
    /\ ProcessingStatusCommit

\* variant: a response with a failed record is reported as an error
handleUploadFulfilledStrict(i, response) ==
    /\ last' = Last("response", mode, <<>>, i)
    /\ effects' = <<>>
    /\ IF \E k \in 1..Len(response.results) : ~response.results[k].success
       THEN /\ error' = Some("Some files failed")
            /\ UNCHANGED results
       ELSE /\ results' = Some(response.results)
            /\ UNCHANGED error
    /\ isProcessing' = FALSE
    /\ pending' = RemovePending(i)
    /\ ResultViewRemounts
    /\ UNCHANGED <<mode, selectedFiles, progress>>
    /\ ProcessingStatusCommit

\* handleUpload after the await, the promise fulfilled
handleUploadFulfilled(i, response) ==
    /\ last' = Last("response", mode, <<>>, i)
    /\ effects' = <<>>
    /\ results' = Some(response.results)
    /\ isProcessing' = FALSE
    /\ pending' = RemovePending(i)
    /\ ResultViewRemounts
    /\ UNCHANGED <<mode, selectedFiles, progress, error>>
    /\ ProcessingStatusCommit

\* variant: progress is left at the last reported percentage
handleUploadRejectedKeepsProgress(i, message) ==
    /\ error' = Some(OrElse(message, "An error occurred during processing"))
    /\ isProcessing' = FALSE
    /\ pending' = RemovePending(i)
    /\ UNCHANGED <<mode, selectedFiles, results, expandedIndex, viewModes, progress>>
    /\ ProcessingStatusCommit

\* handleUpload after the await, the promise rejected: the catch block
handleUploadRejected(i, message) ==
    /\ error' = Some(OrElse(message, "An error occurred during processing"))
    /\ isProcessing' = FALSE
    /\ progress' = 0
    /\ pending' = RemovePending(i)
    /\ UNCHANGED <<mode, selectedFiles, results, expandedIndex, viewModes>>
    /\ ProcessingStatusCommit

\* variant: the new-batch reset leaves progress as it is
handleNewUploadKeepsProgress ==
    /\ last' = Last("new", mode, <<>>, 0)
    /\ effects' = <<>>
    /\ selectedFiles' = <<>>
    /\ results' = None
    /\ error' = None
    /\ ResultViewRemounts
    /\ UNCHANGED <<mode, isProcessing, pending, progress>>
    /\ ProcessingStatusCommit

handleNewUpload ==
    /\ last' = Last("new", mode, <<>>, 0)
    /\ effects' = <<>>
    /\ selectedFiles' = <<>>
    /\ results' = None
    /\ progress' = 0
    /\ error' = None
    /\ ResultViewRemounts
    /\ UNCHANGED <<mode, isProcessing, pending>>
    /\ ProcessingStatusCommit

\* const isExpanded = expandedIndex === index
isExpanded(index) == expandedIndex = Some(index)

\* variant: the row button opens its row and never closes it
toggleExpandedNeverCollapses(index) ==
    /\ last' = Last("toggle", mode, <<>>, index)
    /\ effects' = <<>>
    /\ expandedIndex' = Some(index)
    /\ UNCHANGED <<mode, selectedFiles, isProcessing, progress, results,
                   error, pending, viewModes>>
    /\ ProcessingStatusCommit

\* the row button of BatchResults / NotesResults
toggleExpanded(index) ==
    /\ last' = Last("toggle", mode, <<>>, index)
    /\ effects' = <<>>
    /\ expandedIndex' = IF expandedIndex = Some(index) THEN None
                        ELSE Some(index)
    /\ UNCHANGED <<mode, selectedFiles, isProcessing, progress, results,
                   error, pending, viewModes>>
    /\ ProcessingStatusCommit

\* ------------------------------------------------------------------ events
ModeChange ==
    /\ ModeSwitcherShown
    /\ \E m \in Modes : handleModeChange(m)

FilesChange ==
    /\ UploadFormShown
    /\ \E c \in CandidateLists :
        /\ Len(DedupAppend(selectedFiles, SelectSeq(c, isAllowedFile)))
               <= MaxFiles
        /\ handleFilesChange(c)

RemoveFile ==
    /\ UploadFormShown
    /\ \E index \in 0..(Len(selectedFiles) - 1) : handleRemoveFile(index)

Upload ==
    /\ UploadButtonEnabled
    /\ Len(pending) < MaxPending
    /\ handleUpload

UploadProgress ==
    \E i \in 1..Len(pending) :
        \E loaded \in pending[i].loaded..BodyBytes(pending[i].formData) :
            onUploadProgress(i, loaded)

ResponseArrives ==
    \E i \in 1..Len(pending) :
        \E outcomes \in [1..Len(pending[i].formData) -> Outcomes] :
            handleUploadFulfilled(i,
                BackendResponse(pending[i], outcomes))

RequestFails ==
    \E i \in 1..Len(pending) :
        \E err \in AxiosErrors :
            /\ last' = Last("fail", mode, <<err>>, i)
            /\ effects' = <<>>
            /\ handleUploadRejected(i, ApiErrorMessage(pending[i], err))

\* the timeout of the request expires before a response: axios aborts the
\* request (a timeout option of 0 means no timeout)
RequestTimesOut ==
    \E i \in 1..Len(pending) :
        /\ pending[i].timeout > 0
        /\ last' = Last("timeout", mode, <<TimeoutError>>, i)
        /\ effects' = <<>>
        /\ handleUploadRejected(i, ApiErrorMessage(pending[i], TimeoutError))

NewUpload ==
    /\ ResultViewShown
    /\ handleNewUpload

ToggleRow ==
    /\ ResultViewShown
    /\ \E index \in 0..(Len(results.val) - 1) : toggleExpanded(index)

Next ==
    \/ ModeChange
    \/ FilesChange
    \/ RemoveFile
    \/ Upload
    \/ UploadProgress
    \/ ResponseArrives
    \/ RequestFails
    \/ RequestTimesOut
    \/ NewUpload
    \/ ToggleRow

Spec == Init /\ [][Next]_vars

\* the timer of a pending request runs down: its timeout is not postponed
\* for ever
LiveSpec == Init /\ [][Next]_vars /\ WF_vars(RequestTimesOut)

\* ------------------------------------------- BatchResults / NotesResults
MdSuffix == <<".", "m", "d">>
NotesTxtSuffix == <<"_", "n", "o", "t", "e", "s", ".", "t", "x", "t">>
NotesCropSuffix ==
    <<"_", "n", "o", "t", "e", "s", "_", "c", "r", "o", "p", ".", "p", "n", "g">>
ZipName ==
    <<"o", "c", "r", "_", "r", "e", "s", "u", "l", "t", "s", ".", "z", "i", "p">>

\* filename.replace(/\.[^.]+$/, suffix): the match is a dot followed, up to
\* the end of the name, by one or more characters that are not dots; without
\* a match the name is returned as it is
ReplaceExtension(filename, suffix) ==
    LET matches == { k \in 1..Len(filename) :
                       /\ filename[k] = "."
                       /\ k < Len(filename)
                       /\ \A j \in (k + 1)..Len(filename) : filename[j] # "." }
    IN  IF matches = {} THEN filename
        ELSE SubSeq(filename, 1, (CHOOSE k \in matches : TRUE) - 1) \o suffix

IsSucceeded(r) == r.success
succeeded == SelectSeq(results.val, IsSucceeded)

\* v || 0 on an optional number
OrZero(v) == IF v.some THEN v.val ELSE 0

\* variant: only the succeeded records are counted
RECURSIVE SumProcessingTimeOfSucceeded(_)
SumProcessingTimeOfSucceeded(rs) ==
    IF rs = <<>> THEN 0
    ELSE SumProcessingTimeOfSucceeded(SubSeq(rs, 1, Len(rs) - 1))
         + (IF rs[Len(rs)].success THEN OrZero(rs[Len(rs)].processing_time)
            ELSE 0)

\* results.reduce((s, r) => s + (r.processing_time || 0), 0), in tenths of a
\* second (the view shows the sum with one decimal)
RECURSIVE SumProcessingTime(_)
SumProcessingTime(rs) ==
    IF rs = <<>> THEN 0
    ELSE SumProcessingTime(SubSeq(rs, 1, Len(rs) - 1))
         + OrZero(rs[Len(rs)].processing_time)

totalTime == SumProcessingTime(results.val)

\* viewModes[idx] || "preview" in BatchResults, || "text" in NotesResults
getViewMode(idx) ==
    IF idx \in DOMAIN viewModes THEN viewModes[idx]
    ELSE IF mode = "ocr" THEN "preview" ELSE "text"

hasImage(index) == Truthy(results.val[index + 1].crop_image_b64)

\* variant: the archive is offered for a single succeeded record too
DownloadAllShownForOne == BatchResultsShown /\ Len(succeeded) >= 1

\* the Download All buttons of BatchResults, in the header and in the footer
DownloadAllShown == BatchResultsShown /\ Len(succeeded) > 1
\* the Download .md button of the footer of BatchResults
FooterDownloadShown == BatchResultsShown /\ Len(succeeded) = 1
\* the Copy and .md buttons of an expanded row of BatchResults
MarkdownControlsShown(index) ==
    BatchResultsShown /\ ExpandedContentShown(index)
\* the tab selector of an expanded row of NotesResults
TabSelectorShown(index) == NotesResultsShown /\ ExpandedContentShown(index)
\* the Copy and .txt buttons of an expanded row of NotesResults
TextControlsShown(index) ==
    /\ NotesResultsShown
    /\ ExpandedContentShown(index)
    /\ getViewMode(index) = "text"
\* the .png button of an expanded row of NotesResults
ImageControlShown(index) ==
    /\ NotesResultsShown
    /\ ExpandedContentShown(index)
    /\ getViewMode(index) = "image"
    /\ hasImage(index)

\* navigator.clipboard.writeText(text)
ClipboardWrite(text) == [kind |-> "clipboard", text |-> text]
\* a click on an anchor with a download attribute, or saveAs(blob, name)
Download(name, type, data) ==
    [kind |-> "download", name |-> name, type |-> type, data |-> data]

\* zip.file(name, data): an archive holds one entry per name, a second file
\* of the same name takes the place of the first
ZipFile(zip, name, data) ==
    { e \in zip : e.name # name } \cup { [name |-> name, data |-> data] }

\* succeeded.forEach(...) of handleDownloadAll
RECURSIVE ZipFiles(_, _)
ZipFiles(zip, rs) ==
    IF rs = <<>> THEN zip
    ELSE ZipFiles(ZipFile(zip, ReplaceExtension(rs[1].filename, MdSuffix),
                          rs[1].markdown_content),
                  Tail(rs))

\* NotesResults.setViewMode
setViewMode(idx, m) ==
    /\ effects' = <<>>
    /\ viewModes' = [i \in DOMAIN viewModes \cup {idx} |->
                        IF i = idx THEN m ELSE viewModes[i]]
    /\ UNCHANGED <<mode, selectedFiles, isProcessing, progress, results,
                   error, pending, expandedIndex>>
    /\ ProcessingStatusCommit

\* BatchResults.toggleViewMode, called by the Preview button when the row
\* shows raw text and by the Raw button when it shows the preview
toggleViewMode(idx) ==
    /\ effects' = <<>>
    /\ viewModes' = [i \in DOMAIN viewModes \cup {idx} |->
                        IF i # idx THEN viewModes[i]
                        ELSE IF idx \in DOMAIN viewModes
                                /\ viewModes[idx] = "raw"
                        THEN "preview" ELSE "raw"]
    /\ UNCHANGED <<mode, selectedFiles, isProcessing, progress, results,
                   error, pending, expandedIndex>>
    /\ ProcessingStatusCommit

\* BatchResults.handleCopy
handleCopy(markdown) ==
    /\ effects' = <<ClipboardWrite(markdown)>>
    /\ UNCHANGED <<mode, selectedFiles, isProcessing, progress, results,
                   error, pending, expandedIndex, viewModes>>
    /\ ProcessingStatusCommit

\* BatchResults.handleDownloadSingle
handleDownloadSingle(result) ==
    /\ effects' = <<Download(ReplaceExtension(result.filename, MdSuffix),
                             "text/markdown", result.markdown_content)>>
    /\ UNCHANGED <<mode, selectedFiles, isProcessing, progress, results,
                   error, pending, expandedIndex, viewModes>>
    /\ ProcessingStatusCommit

\* BatchResults.handleDownloadAll; what follows its await reads the local
\* zip only, so the step is taken as one
handleDownloadAll ==
    /\ effects' = <<Download(ZipName, "application/zip",
                             ZipFiles({}, succeeded))>>
    /\ UNCHANGED <<mode, selectedFiles, isProcessing, progress, results,
                   error, pending, expandedIndex, viewModes>>
    /\ ProcessingStatusCommit

\* NotesResults.handleCopyText
handleCopyText(text) ==
    /\ effects' = <<ClipboardWrite(OrEmptyString(text))>>
    /\ UNCHANGED <<mode, selectedFiles, isProcessing, progress, results,
                   error, pending, expandedIndex, viewModes>>
    /\ ProcessingStatusCommit

\* NotesResults.handleDownloadText
handleDownloadText(result) ==
    /\ effects' = <<Download(ReplaceExtension(result.filename, NotesTxtSuffix),
                             "text/plain;charset=utf-8",
                             OrEmptyString(result.notes_text))>>
    /\ UNCHANGED <<mode, selectedFiles, isProcessing, progress, results,
                   error, pending, expandedIndex, viewModes>>
    /\ ProcessingStatusCommit

\* NotesResults.handleDownloadImage
handleDownloadImage(result) ==
    /\ effects' = IF ~Truthy(result.crop_image_b64) THEN <<>>
                  ELSE <<Download(ReplaceExtension(result.filename,
                                                   NotesCropSuffix),
                                  "image/png", result.crop_image_b64)>>
    /\ UNCHANGED <<mode, selectedFiles, isProcessing, progress, results,
                   error, pending, expandedIndex, viewModes>>
    /\ ProcessingStatusCommit

\* the events of the result views
SelectTab ==
    /\ NotesResultsShown
    /\ \E index \in 0..(Len(results.val) - 1) :
        /\ TabSelectorShown(index)
        /\ \E m \in {"text"} \cup (IF hasImage(index) THEN {"image"} ELSE {}) :
              /\ last' = Last("tab", mode, <<>>, index)
              /\ setViewMode(index, m)

SwitchView ==
    /\ BatchResultsShown
    /\ \E index \in 0..(Len(results.val) - 1) :
        /\ MarkdownControlsShown(index)
        /\ last' = Last("view", mode, <<>>, index)
        /\ toggleViewMode(index)

CopyMarkdown ==
    \E index \in 0..(Len(results.val) - 1) :
        /\ MarkdownControlsShown(index)
        /\ last' = Last("copy", mode, <<>>, index)
        /\ handleCopy(results.val[index + 1].markdown_content)

DownloadMarkdown ==
    \E index \in 0..(Len(results.val) - 1) :
        /\ MarkdownControlsShown(index)
        /\ last' = Last("download", mode, <<>>, index)
        /\ handleDownloadSingle(results.val[index + 1])

DownloadOnly ==
    /\ FooterDownloadShown
    /\ last' = Last("downloadOnly", mode, <<>>, 0)
    /\ handleDownloadSingle(succeeded[1])

DownloadAll ==
    /\ DownloadAllShown
    /\ last' = Last("downloadAll", mode, <<>>, 0)
    /\ handleDownloadAll

CopyNotes ==
    \E index \in 0..(Len(results.val) - 1) :
        /\ TextControlsShown(index)
        /\ last' = Last("copyText", mode, <<>>, index)
        /\ handleCopyText(results.val[index + 1].notes_text)

DownloadNotes ==
    \E index \in 0..(Len(results.val) - 1) :
        /\ TextControlsShown(index)
        /\ last' = Last("downloadText", mode, <<>>, index)
        /\ handleDownloadText(results.val[index + 1])

DownloadCrop ==
    \E index \in 0..(Len(results.val) - 1) :
        /\ ImageControlShown(index)
        /\ last' = Last("downloadImage", mode, <<>>, index)
        /\ handleDownloadImage(results.val[index + 1])

\* the sequences of files that can be staged
StageableLists ==
    { c \in SeqsOf({f \in FileUniverse : isAllowedFile(f)}, 0, MaxFiles) :
        \A i, j \in 1..Len(c) : i # j => c[i] # c[j] }

\* a result view on its own, from the moment the response of a batch is
\* stored: any staged batch, either mode, any outcome of each file
InitResults ==
    \E files \in StageableLists \ {<<>>}, m \in Modes :
        \E outcomes \in [1..Len(files) -> Outcomes] :
            /\ mode = m
            /\ selectedFiles = files
            /\ isProcessing = FALSE
            /\ progress = 100
            /\ results = Some(BackendResponse(
                               IF m = "ocr" THEN uploadBatch(files)
                               ELSE extractNotesBatch(files, TRUE),
                               outcomes).results)
            /\ error = None
            /\ pending = <<>>
            /\ expandedIndex = None
            /\ viewModes = NoViewModes
            /\ effects = <<>>
            /\ timers = {}
            /\ dots = <<>>
            /\ elapsedSeconds = 0
            /\ last = Last("response", m, <<>>, 1)

NextResults ==
    \/ ToggleRow
    \/ SelectTab
    \/ SwitchView
    \/ CopyMarkdown
    \/ DownloadMarkdown
    \/ DownloadOnly
    \/ DownloadAll
    \/ CopyNotes
    \/ DownloadNotes
    \/ DownloadCrop

SpecResults == InitResults /\ [][NextResults]_vars

\* the callbacks of the two intervals; a state update of a component that is
\* not mounted any more is dropped
DotsTick ==
    /\ "dots" \in timers
    /\ last' = Last("dots", mode, <<>>, 0)
    /\ effects' = <<>>
    /\ dots' = IF ~isProcessing THEN dots
               ELSE IF Len(dots) >= 3 THEN <<>> ELSE Append(dots, ".")
    /\ UNCHANGED <<mode, selectedFiles, isProcessing, progress, results,
                   error, pending, expandedIndex, viewModes, timers,
                   elapsedSeconds>>

ElapsedTick ==
    /\ "elapsed" \in timers
    /\ elapsedSeconds < MaxSeconds
    /\ last' = Last("elapsed", mode, <<>>, 0)
    /\ effects' = <<>>
    /\ elapsedSeconds' = IF ~isProcessing THEN elapsedSeconds
                         ELSE elapsedSeconds + 1
    /\ UNCHANGED <<mode, selectedFiles, isProcessing, progress, results,
                   error, pending, expandedIndex, viewModes, timers, dots>>

\* App with the interval callbacks of its processing view
NextTimers ==
    \/ Next
    \/ DotsTick
    \/ ElapsedTick

SpecTimers == Init /\ [][NextTimers]_vars

\* App with the tabs and view toggles of its result views
NextSession ==
    \/ Next
    \/ SelectTab
    \/ SwitchView

SpecSession == Init /\ [][NextSession]_vars

\* handleRemoveFile on its own: any staged sequence of accepted files, with
\* or without an error shown, and any index, in range or not
InitRemove ==
    /\ mode \in Modes
    /\ selectedFiles \in StageableLists
    /\ isProcessing = FALSE
    /\ progress = 0
    /\ results = None
    /\ error \in {None, Some(NoResponseMessage)}
    /\ pending = <<>>
    /\ expandedIndex = None
    /\ viewModes = NoViewModes
    /\ effects = <<>>
    /\ timers = {}
    /\ dots = <<>>
    /\ elapsedSeconds = 0
    /\ last = Last("init", mode, <<>>, 0)

NextRemove == \E index \in (0 - 1)..(MaxFiles + 1) : handleRemoveFile(index)

SpecRemove == InitRemove /\ [][NextRemove]_vars

\* ================================================================== claims

\* C1: an upload starts only from a non-empty selection with no batch in
\* flight, and at most one posted request is outstanding at any time.
C1_SingleOutstandingBatch ==
    [][ /\ Len(pending') <= 1
        /\ (Len(pending') > Len(pending) =>
               /\ Len(selectedFiles) > 0
               /\ ~isProcessing
               /\ pending = <<>>) ]_vars

C1_Witness == last.op = "upload" /\ isProcessing /\ Len(pending) = 1

\* C2: a handleModeChange step to a mode other than the active one ends with
\* the new mode active, nothing staged, progress 0, no results, no error and
\* the in-flight guard false.
C2_ModeSwitchResets ==
    [][ (last'.op = "mode" /\ last'.mode # mode) =>
            /\ mode' = last'.mode
            /\ selectedFiles' = <<>>
            /\ progress' = 0
            /\ results' = None
            /\ error' = None
            /\ isProcessing' = FALSE ]_vars

C2_Witness ==
    last.op = "mode" /\ mode = "notes" /\ selectedFiles = <<>>
    /\ error = None

\* C3: a handleModeChange step to the active mode leaves the staged files,
\* progress, results, error slot and in-flight guard as they were.
C3_SameModeNoOp ==
    [][ (last'.op = "mode" /\ last'.mode = mode) =>
            UNCHANGED <<mode, selectedFiles, progress, results, error,
                        isProcessing>> ]_vars

C3_Witness ==
    last.op = "mode" /\ last.mode = mode /\ Len(selectedFiles) > 0
    /\ error.some

\* C4: no two entries of the staged file set share a (name, size) key.
C4_NoDuplicateKeys ==
    \A i, j \in 1..Len(selectedFiles) :
        i # j => FileKey(selectedFiles[i]) # FileKey(selectedFiles[j])

\* the accepted candidates of c whose key is not among keys, in arrival order
RECURSIVE NewAccepted(_, _)
NewAccepted(c, keys) ==
    IF c = <<>> THEN <<>>
    ELSE IF isAllowedFile(Head(c)) /\ FileKey(Head(c)) \notin keys
         THEN <<Head(c)>> \o NewAccepted(Tail(c), keys)
         ELSE NewAccepted(Tail(c), keys)

StagedKeys(files) == { FileKey(files[i]) : i \in 1..Len(files) }

\* C5: an add keeps the staged entries in place and in order, appends the
\* accepted candidates whose key was not staged, in arrival order, drops the
\* others (so a candidate list of staged keys leaves the count unchanged),
\* and the same add done again changes nothing.
C5_AddAppendsUnstagedKeys ==
    [][ last'.op = "add" =>
          LET c == last'.cand
              n == Len(selectedFiles)
          IN  /\ Len(selectedFiles') >= n
              /\ SubSeq(selectedFiles', 1, n) = selectedFiles
              /\ SubSeq(selectedFiles', n + 1, Len(selectedFiles'))
                     = NewAccepted(c, StagedKeys(selectedFiles))
              /\ ((\A i \in 1..Len(c) :
                      FileKey(c[i]) \in StagedKeys(selectedFiles))
                    => Len(selectedFiles') = n)
              /\ NewAccepted(c, StagedKeys(selectedFiles')) = <<>> ]_vars

\* an add that dropped one accepted candidate (its key was staged by another
\* File object) and appended another
C5_Witness ==
    /\ last.op = "add"
    /\ \E i \in 1..Len(last.cand) :
          /\ isAllowedFile(last.cand[i])
          /\ \A k \in 1..Len(selectedFiles) : selectedFiles[k] # last.cand[i]
    /\ \E j \in 1..Len(last.cand) :
          /\ Len(selectedFiles) >= 2
          /\ selectedFiles[Len(selectedFiles)] = last.cand[j]

\* the files a posted request carries
FilesOf(req) == [k \in 1..Len(req.formData) |-> req.formData[k].value]

\* C6: a top-level failure ends with the in-flight guard false, progress 0
\* and the staged files being the submitted ones, the upload control enabled.
C6_FailureIsRetryable ==
    [][ (last'.op \in {"fail", "timeout"} /\ Len(pending') < Len(pending)) =>
            /\ isProcessing' = FALSE
            /\ progress' = 0
            /\ selectedFiles' = FilesOf(pending[last'.index])
            /\ selectedFiles' = selectedFiles
            /\ UploadButtonEnabled' ]_vars

C6_Witness ==
    last.op = "fail" /\ error.some /\ Len(selectedFiles) >= 2
    /\ ~isProcessing /\ progress = 0

\* C7: a batch that completes leaves either results and no error, or an error
\* and no results.
C7_ExactlyOneOutcome ==
    [][ Len(pending') < Len(pending) =>
            /\ results'.some # error'.some
            /\ (last'.op = "response" => results'.some /\ ~error'.some)
            /\ (last'.op \in {"fail", "timeout"} =>
                   error'.some /\ ~results'.some) ]_vars

\* a batch that succeeded after its upload was reported
C7_Witness ==
    last.op = "response" /\ results.some /\ error = None /\ progress > 0

\* C8: a delivered response is stored whatever number of its records failed,
\* the error slot stays empty while results are stored, and expanding the row
\* of a succeeded record shows its content and export controls.
C8_RecordFailuresAreData ==
    [][ /\ (last'.op = "response" /\ Len(pending') < Len(pending) =>
               /\ results'.some
               /\ Len(results'.val) = Len(pending[last'.index].formData)
               /\ ResultViewShown')
        /\ (results'.some => error' = None)
        /\ \A index \in 0..(MaxFiles + 1) :
              ( /\ last'.op = "toggle" /\ last'.index = index
                /\ results.some
                /\ index < Len(results.val)
                /\ results.val[index + 1].success
                /\ expandedIndex # Some(index) )
              => ExpandedContentShown(index)' ]_vars

\* the content of a succeeded record is shown next to a failed record
C8_Witness ==
    /\ results.some
    /\ \E i \in 1..Len(results.val) : ~results.val[i].success
    /\ \E index \in 0..(Len(results.val) - 1) : ExpandedContentShown(index)
    /\ error = None

\* C9: the stored results hold one record per submitted file, record i being
\* the record of the i-th submitted file.
C9_RecordsFollowSubmission ==
    results.some =>
        /\ Len(results.val) = Len(selectedFiles)
        /\ \A i \in 1..Len(results.val) :
              /\ results.val[i].filename = selectedFiles[i].name
              /\ results.val[i].file_size = selectedFiles[i].size

C9_Witness ==
    /\ results.some
    /\ Len(results.val) = 2
    /\ results.val[1].filename # results.val[2].filename
    /\ results.val[1].success # results.val[2].success

\* C10: the posted request carries the staged files, each once and in staged
\* order, to /api/upload-batch in mode ocr and to
\* /api/extract-notes-batch?include_image=true in mode notes.
C10_RequestCarriesStagedFiles ==
    /\ isProcessing => Len(pending) = 1
    /\ \A i \in 1..Len(pending) :
          LET req == pending[i]
          IN  /\ Len(req.formData) = Len(selectedFiles)
              /\ \A k \in 1..Len(req.formData) :
                    /\ req.formData[k].field = "files"
                    /\ req.formData[k].value = selectedFiles[k]
              /\ (mode = "ocr" =>
                    req.path = "/api/upload-batch" /\ req.query = "")
              /\ (mode = "notes" =>
                    /\ req.path = "/api/extract-notes-batch"
                    /\ req.query = "include_image=true")

C10_Witness ==
    /\ isProcessing
    /\ mode = "notes"
    /\ Len(pending) = 1
    /\ Len(pending[1].formData) >= 2
    /\ pending[1].formData[1].value # pending[1].formData[2].value

C12_BatchEventuallySettles ==
    /\ (isProcessing ~> ~isProcessing)
    /\ [][ (last'.op = "timeout" /\ Len(pending') < Len(pending)) =>
               /\ isProcessing' = FALSE
               /\ progress' = 0
               /\ error' = Some(NoResponseMessage)
               /\ results' = None ]_vars

C12_Witness ==
    /\ last.op = "timeout"
    /\ ~isProcessing
    /\ progress = 0
    /\ error = Some(NoResponseMessage)
    /\ pending = <<>>

\* C13 as stated: an error in the slot changes only by an upload attempt, a
\* mode switch or a new-batch reset.
C13_ErrorKeptUntilUploadSwitchReset ==
    [][ (error.some /\ error' # error) =>
            last'.op \in {"upload", "mode", "new"} ]_vars

\* C13 as amended: an error in the slot stays until an upload attempt, a
\* switch to another mode, a new-batch reset, an add with an accepted
\* candidate or a remove; each of these leaves the slot empty.
C13_ErrorKeptUntilNextClearingAction ==
    [][ /\ (error.some /\ error' # error =>
               /\ error' = None
               /\ last'.op \in {"upload", "mode", "new", "add", "remove"})
        /\ (Len(pending') > Len(pending) => error' = None)
        /\ (mode' # mode => error' = None)
        /\ (last'.op \in {"new", "remove"} => error' = None)
        /\ (last'.op = "add"
              /\ (\E i \in 1..Len(last'.cand) : isAllowedFile(last'.cand[i]))
              => error' = None)
        /\ (last'.op = "mode" /\ last'.mode = mode => error' = error)
        /\ (last'.op = "add"
              /\ (\A i \in 1..Len(last'.cand) : ~isAllowedFile(last'.cand[i]))
              => error' = error) ]_vars

\* the error of a failed batch after an add whose candidates were rejected
C13_Witness ==
    /\ error.some
    /\ last.op = "add"
    /\ Len(selectedFiles) > 0

\* the characters after the last dot of a name, lower case (empty when the
\* name has no dot)
RECURSIVE FinalExtension(_)
FinalExtension(n) ==
    IF n = <<>> \/ n[Len(n)] = "." THEN <<>>
    ELSE FinalExtension(SubSeq(n, 1, Len(n) - 1))
             \o <<LowerChar(n[Len(n)])>>

HasDot(n) == \E k \in 1..Len(n) : n[k] = "."

\* the allowlist pdf, jpg, jpeg, png, gif, webp, bmp, tiff, tif, as mime
\* type or as file-name extension
InAllowlist(f) ==
    \/ f.type \in { "application/pdf", "image/jpg", "image/jpeg",
                    "image/png", "image/gif", "image/webp", "image/bmp",
                    "image/tiff", "image/tif" }
    \/ /\ HasDot(f.name)
       /\ FinalExtension(f.name) \in
             { <<"p", "d", "f">>, <<"j", "p", "g">>, <<"j", "p", "e", "g">>,
               <<"p", "n", "g">>, <<"g", "i", "f">>, <<"w", "e", "b", "p">>,
               <<"b", "m", "p">>, <<"t", "i", "f", "f">>, <<"t", "i", "f">> }

\* C14: every staged file has its mime type or its extension in the
\* allowlist, and an add whose candidates are all outside the allowlist
\* leaves the staged files and the error slot as they were.
C14_OnlyAllowlistedFilesStaged ==
    [][ /\ \A k \in 1..Len(selectedFiles') : InAllowlist(selectedFiles'[k])
        /\ (last'.op = "add"
              /\ (\A i \in 1..Len(last'.cand) : ~InAllowlist(last'.cand[i]))
              => UNCHANGED <<selectedFiles, error>>) ]_vars

\* an add of rejected candidates only, with files staged and an error shown
C14_Witness ==
    /\ last.op = "add"
    /\ \A i \in 1..Len(last.cand) : ~InAllowlist(last.cand[i])
    /\ error.some
    /\ Len(selectedFiles) = 2
    /\ selectedFiles[1].type = ""
    /\ ~HasDot(selectedFiles[2].name)

\* the sequence files without its entry at index (counted from 0)
IsWithoutEntry(after, files, index) ==
    /\ Len(after) = Len(files) - 1
    /\ \A k \in 1..Len(after) :
          after[k] = IF k <= index THEN files[k] ELSE files[k + 1]

InRange(index, files) == 0 <= index /\ index < Len(files)

WithoutFinalExtension(n) ==
    IF HasDot(n)
    THEN SubSeq(n, 1, Len(n) - Len(FinalExtension(n)) - 1)
    ELSE n

\* the record a single-file download exports, and the suffix of its kind
ExportedRecord ==
    IF last.op = "downloadOnly" THEN succeeded[1]
    ELSE results.val[last.index + 1]
ExportSuffix ==
    IF last.op = "downloadText" THEN NotesTxtSuffix
    ELSE IF last.op = "downloadImage" THEN NotesCropSuffix
    ELSE MdSuffix

\* C16: every single-file export is named by the record's filename with its
\* final extension segment replaced by the suffix of the export kind, every
\* earlier character kept.
C16_ExportNameReplacesFinalExtension ==
    last.op \in {"download", "downloadOnly", "downloadText", "downloadImage"}
    => /\ Len(effects) = 1
       /\ effects[1].kind = "download"
       /\ effects[1].name =
              WithoutFinalExtension(ExportedRecord.filename) \o ExportSuffix

\* C17: Download All saves one archive with exactly one entry per succeeded
\* record, named by the extension transform of the record's filename and
\* holding the record's markdown content.
C17_ArchiveHasEntryPerSucceededRecord ==
    last.op = "downloadAll"
    => /\ Len(effects) = 1
       /\ effects[1].kind = "download"
       /\ effects[1].name = ZipName
       /\ Cardinality(effects[1].data) = Len(succeeded)
       /\ \A i \in 1..Len(succeeded) :
             [ name |-> ReplaceExtension(succeeded[i].filename, MdSuffix),
               data |-> succeeded[i].markdown_content ] \in effects[1].data

\* a download control of row index is shown
RowDownloadShown(index) ==
    \/ MarkdownControlsShown(index)
    \/ TextControlsShown(index)
    \/ ImageControlShown(index)

\* C18: the archive export is offered exactly in the full-OCR view of a batch
\* with more than one succeeded record; with one succeeded record no archive
\* is offered and the single-file download is; with none no download is
\* offered, and none happens.
C18_BulkExportOfferedIffSeveralSucceeded ==
    ResultViewShown =>
        /\ DownloadAllShown <=> (mode = "ocr" /\ Len(succeeded) > 1)
        /\ last.op = "downloadAll" => (mode = "ocr" /\ Len(succeeded) > 1)
        /\ Len(succeeded) = 1 =>
              /\ ~DownloadAllShown
              /\ mode = "ocr" => FooterDownloadShown
              /\ \A index \in 0..(Len(results.val) - 1) :
                    (ExpandedContentShown(index) /\ getViewMode(index) # "image")
                    => RowDownloadShown(index)
        /\ Len(succeeded) = 0 =>
              /\ ~DownloadAllShown
              /\ ~FooterDownloadShown
              /\ \A index \in 0..(Len(results.val) - 1) :
                    ~RowDownloadShown(index)
              /\ effects = <<>>

\* the archive of a batch with a failed record has been saved
C18_Witness ==
    /\ last.op = "downloadAll"
    /\ Len(succeeded) > 1
    /\ Len(effects) = 1

\* the text payload of the record whose Copy button was clicked
CopiedPayload ==
    IF mode = "ocr" THEN results.val[last.index + 1].markdown_content
    ELSE results.val[last.index + 1].notes_text

\* C19: Copy writes the text payload of the record to the clipboard
\* unchanged, and writes nothing when the payload is empty or absent.
C19_CopyNoOpOnEmptyPayload ==
    last.op \in {"copy", "copyText"}
    => IF Truthy(CopiedPayload)
       THEN effects = <<ClipboardWrite(CopiedPayload)>>
       ELSE effects = <<>>

\* C20: the timeout of a posted batch of n files is 300000 + n * 600000 ms in
\* either mode, 2100000 ms for three files.
C20_TimeoutGrowsWithFileCount ==
    /\ \A i \in 1..Len(pending) :
          pending[i].timeout = 300000 + Len(pending[i].formData) * 600000
    /\ LET three == [k \in 1..3 |-> CHOOSE f \in FileUniverse : f.id = k]
       IN  /\ uploadBatch(three).timeout = 2100000
           /\ extractNotesBatch(three, TRUE).timeout = 2100000

\* a notes batch of two files is in flight
C20_Witness ==
    /\ isProcessing
    /\ Len(pending) = 1
    /\ pending[1].path = "/api/extract-notes-batch"
    /\ Len(pending[1].formData) = 2
    /\ pending[1].timeout = 1500000

\* the processing times of the records at the positions S, absent as 0
RECURSIVE TimeOver(_, _)
TimeOver(rs, S) ==
    IF S = {} THEN 0
    ELSE LET i == CHOOSE i \in S : TRUE
         IN  (IF rs[i].processing_time.some THEN rs[i].processing_time.val
              ELSE 0)
             + TimeOver(rs, S \ {i})

\* C21: the total processing time of a result view is the sum of the
\* processing times of all records, succeeded or failed, an absent time
\* counting 0; the times 1.2, absent, 3.3 give 4.5.
C21_TotalTimeSumsAllRecords ==
    /\ ResultViewShown =>
          totalTime = TimeOver(results.val, 1..Len(results.val))
    /\ SumProcessingTime(
           << [success |-> TRUE, processing_time |-> Some(12)],
              [success |-> FALSE, processing_time |-> None],
              [success |-> TRUE, processing_time |-> Some(33)] >>) = 45

\* a failed record with a time and a record without one
C21_Witness ==
    /\ ResultViewShown
    /\ \E i, j \in 1..Len(results.val) :
          /\ ~results.val[i].success
          /\ results.val[i].processing_time.some
          /\ ~results.val[j].processing_time.some
    /\ totalTime > 0

\* C22 as stated: with a response the message is the payload's detail field,
\* or else its error field; without a response, the request having been sent,
\* the fixed no-response text; otherwise the message of the error itself.
C22_FailureMessageClassified ==
    last.op \in {"fail", "timeout"} =>
        LET err == last.cand[1]
        IN  error = Some(IF err.response THEN OrElse(err.detail, err.error)
                         ELSE IF err.request THEN NoResponseMessage
                         ELSE err.message)

\* the fixed text of the operation of a mode
FallbackText(m) ==
    IF m = "ocr" THEN "Batch upload failed" ELSE "Notes extraction failed"

\* C22 as amended: a payload with neither field, and an error without a
\* message, give the fixed fallback text of the operation.
C22_FailureMessageClassifiedWithFallback ==
    last.op \in {"fail", "timeout"} =>
        LET err == last.cand[1]
            fallback == FallbackText(last.mode)
        IN  error = Some(
                IF err.response
                THEN IF err.detail # "" THEN err.detail
                     ELSE IF err.error # "" THEN err.error
                     ELSE fallback
                ELSE IF err.request THEN NoResponseMessage
                ELSE IF err.message # "" THEN err.message
                ELSE fallback)

\* a server response whose payload has an error field and no detail field
C22_Witness ==
    /\ last.op = "fail"
    /\ last.cand[1].response
    /\ last.cand[1].request
    /\ last.cand[1].detail = ""
    /\ error = Some("error")

\* the rows of the result view
Rows == 0..(Len(results.val) - 1)

\* C23: at most one row of a result view is expanded; the button of another
\* row makes that row the only expanded one, and the button of the expanded
\* row leaves no row expanded.
C23_AtMostOneExpanded ==
    [][ /\ Cardinality({ i \in Rows : isExpanded(i) }) <= 1
        /\ last'.op = "toggle" =>
              IF isExpanded(last'.index)
              THEN \A i \in Rows : ~isExpanded(i)'
              ELSE \A i \in Rows : isExpanded(i)' <=> i = last'.index ]_vars

\* the second row was opened while the first was expanded, or on its own
C23_Witness ==
    /\ last.op = "toggle"
    /\ last.index = 1
    /\ isExpanded(1)
    /\ Len(results.val) = 2

\* the view mode a row starts with
DefaultViewMode == IF mode = "ocr" THEN "preview" ELSE "text"

\* C24: when a response is stored no row is expanded and every row has its
\* default view mode, whatever was chosen in the view of an earlier batch.
C24_ViewStateStartsEmpty ==
    [][ (last'.op = "response" /\ results'.some /\ ~results.some) =>
           /\ \A i \in Rows' : ~isExpanded(i)' /\ getViewMode(i)' = DefaultViewMode'
           /\ expandedIndex' = None
           /\ viewModes' = NoViewModes ]_vars

\* the response of a batch of two files has just been stored
C24_Witness ==
    /\ last.op = "response"
    /\ ResultViewShown
    /\ Len(results.val) = 2
    /\ expandedIndex = None
    /\ viewModes = NoViewModes

\* C25: the intervals of the processing view are set only while a batch is
\* in flight; every step that ends processing clears them, and no interval
\* is set in a state whose in-flight guard is false.
C25_TimersOnlyWhileProcessing ==
    [][ /\ ~isProcessing' => timers' = {}
        /\ isProcessing' => timers' = {"dots", "elapsed"}
        /\ (isProcessing /\ ~isProcessing') =>
              /\ last'.op \in {"response", "fail", "timeout"}
              /\ timers' = {} ]_vars

\* a batch has completed and the processing view is gone
C25_Witness ==
    /\ last.op \in {"response", "fail", "timeout"}
    /\ ~isProcessing
    /\ timers = {}

\* the endpoint of a mode
EndpointOf(m) ==
    IF m = "ocr" THEN "/api/upload-batch" ELSE "/api/extract-notes-batch"

\* the records are of the shape the endpoint of mode m returns
RecordsOfMode(rs, m) ==
    \A i \in 1..Len(rs) :
        IF m = "ocr"
        THEN /\ rs[i].notes_text = None
             /\ rs[i].crop_image_b64 = None
             /\ rs[i].success => rs[i].markdown_content.some
        ELSE /\ rs[i].markdown_content = None
             /\ rs[i].success => rs[i].notes_text.some

\* C26: the mode does not change while a batch is in flight or results are
\* stored; a batch in flight was posted to the endpoint of the active mode,
\* and stored results were returned by that endpoint and are shown by the
\* result view of that mode, never by the other.
C26_ModeFixedWhileBusy ==
    [][ /\ (isProcessing \/ results.some) => mode' = mode
        /\ \A i \in 1..Len(pending') : pending'[i].path = EndpointOf(mode')
        /\ (last'.op = "response" /\ Len(pending') < Len(pending)) =>
              pending[last'.index].path = EndpointOf(mode')
        /\ results'.some =>
              /\ RecordsOfMode(results'.val, mode')
              /\ ~isProcessing' =>
                    /\ BatchResultsShown' <=> mode' = "ocr"
                    /\ NotesResultsShown' <=> mode' = "notes" ]_vars

\* the results of a notes batch are shown by the notes view
C26_Witness ==
    /\ mode = "notes"
    /\ last.op = "response"
    /\ NotesResultsShown
    /\ ~BatchResultsShown
    /\ \E i \in 1..Len(results.val) : results.val[i].notes_text.some

\* the main views the render conditions of App show
MainViewsShown ==
    {v \in {"form", "processing", "ocr results", "notes results"} :
        \/ v = "form" /\ UploadFormShown
        \/ v = "processing" /\ ProcessingStatusShown
        \/ v = "ocr results" /\ BatchResultsShown
        \/ v = "notes results" /\ NotesResultsShown}

\* C27: exactly one main view is shown in every reachable state: the upload
\* form when no batch is in flight and no results are stored, the processing
\* view when a batch is in flight, one result view when no batch is in flight
\* and results are stored.
C27_ExactlyOneMainView ==
    /\ Cardinality(MainViewsShown) = 1
    /\ (~isProcessing /\ ~results.some) => MainViewsShown = {"form"}
    /\ isProcessing => MainViewsShown = {"processing"}
    /\ (~isProcessing /\ results.some) =>
          \/ MainViewsShown = {"ocr results"}
          \/ MainViewsShown = {"notes results"}

\* every main view is shown alone in some state; here a result view
C27_Witness ==
    /\ results.some
    /\ ~isProcessing
    /\ MainViewsShown = {"notes results"}

\* C28: whenever the upload form is shown (no batch in flight, no results
\* stored) progress is 0; the steps that lead to the form (a failure, a
\* timeout, a new-batch reset, a mode switch) leave progress at 0.
C28_ProgressZeroWithForm ==
    [][ UploadFormShown' =>
            /\ progress' = 0
            /\ ~UploadFormShown =>
                  last'.op \in {"fail", "timeout", "new"} ]_vars

\* the form is shown again after a new-batch reset
C28_Witness ==
    /\ last.op = "new"
    /\ UploadFormShown
    /\ progress = 0

C30_StagedFilesFrozenDuringBatch ==
    [][ /\ isProcessing' =>
              /\ Len(pending') = 1
              /\ FilesOf(pending'[1]) = selectedFiles'
              /\ Len(selectedFiles') = Len(pending'[1].formData)
        /\ isProcessing => selectedFiles' = selectedFiles
        /\ (~isProcessing /\ results.some) =>
              \/ selectedFiles' = selectedFiles
              \/ last'.op = "new" /\ selectedFiles' = <<>> ]_vars

\* a batch of two files succeeded and the two files are still staged
C30_Witness ==
    /\ last.op = "response"
    /\ results.some
    /\ Len(selectedFiles) = 2
    /\ Len(results.val) = Len(selectedFiles)

====
